---- MODULE Spec2Model ----
(***************************************************************************)
(* Model of the two scripts of lofar_helpers:                              *)
(*   src/subtract/subtract_with_dp3.py   (class SubtractDP3 and __main__)  *)
(*   src/analysis/montecarlo_results.py  (collector and report)            *)
(*                                                                         *)
(* Python strings are sequences of one-character strings (or of atoms such *)
(* as a file name that the code never looks into); None is a record with   *)
(* some = FALSE.  Python floats of the analysis script are exact rationals.*)
(***************************************************************************)
EXTENDS Integers, Sequences, FiniteSets, TLC

VARIABLES
    pc,       \* position of the running script or client
    args,     \* the parsed command line (argparse Namespace) of __main__
    env,      \* the file system __main__ runs in
    inputs,   \* phasecenter, freqavg, timeavg as computed at lines 280-321
    mslist,   \* SubtractDP3.mslist
    cmd,      \* SubtractDP3.cmd
    steps,    \* SubtractDP3.steps
    run,      \* frame of SubtractDP3.run: type, loop index n, return position
    last,     \* arguments of the last predict / moreDP3 call
    written,  \* command files written, in write order
    invoked,  \* external tool invocations, in order
    err,      \* exit message or name of the unhandled exception
    gld,      \* a call of get_largest_divider: inp, max, ret
    mc_pc,    \* position of the analysis script
    globbed,  \* files of each glob list that the loops have read so far
    lists,    \* the 36 accumulator lists of the analysis script
    report    \* lines printed by the analysis script

vars == <<pc, args, env, inputs, mslist, cmd, steps, run, last, written,
          invoked, err, gld, mc_pc, globbed, lists, report>>

dp3vars == <<pc, args, env, inputs, mslist, cmd, steps, run, last, written,
             invoked, err>>
mcvars == <<mc_pc, globbed, lists, report>>

----------------------------------------------------------------------------
(* Bounds *)

MaxMS == 2          \* measurement sets on the command line
MaxSoltabs == 2     \* solution tables (groups of sol000) in an h5parm
MaxChan == 64       \* channel counts given to get_largest_divider
MaxAvg == 12        \* averaging factors given to get_largest_divider
MaxFiles == 3       \* result files matched by all six globs together

----------------------------------------------------------------------------
(* Python values *)

None == [some |-> FALSE, s |-> <<>>]
Some(s) == [some |-> TRUE, s |-> s]

\* str(x) of an optional string
Str(x) == IF x.some THEN x.s ELSE <<"None">>

Digits == {"0", "1", "2", "3", "4", "5", "6", "7", "8", "9"}
Letters == {"M", "H", "z", "s", "k"}

DigitVal(c) ==
    CASE c = "0" -> 0 [] c = "1" -> 1 [] c = "2" -> 2 [] c = "3" -> 3
      [] c = "4" -> 4 [] c = "5" -> 5 [] c = "6" -> 6 [] c = "7" -> 7
      [] c = "8" -> 8 [] c = "9" -> 9

DigitChar(d) == <<"0", "1", "2", "3", "4", "5", "6", "7", "8", "9">>[d + 1]

\* str.isdigit(): non-empty and every character a digit
IsDigit(s) == Len(s) > 0 /\ \A i \in 1..Len(s) : s[i] \in Digits

\* str.isalpha() of one character
IsAlpha(c) == c \in Letters

RECURSIVE DigitsVal(_)
DigitsVal(s) ==
    IF Len(s) = 0 THEN 0
    ELSE 10 * DigitsVal(SubSeq(s, 1, Len(s) - 1)) + DigitVal(s[Len(s)])

\* int(s) of a string: an optional sign and digits, ValueError otherwise
IntOf(s) ==
    IF IsDigit(s) THEN [ok |-> TRUE, val |-> DigitsVal(s)]
    ELSE IF Len(s) > 1 /\ s[1] \in {"-", "+"} /\ IsDigit(Tail(s))
         THEN [ok |-> TRUE,
               val |-> IF s[1] = "-" THEN 0 - DigitsVal(Tail(s))
                       ELSE DigitsVal(Tail(s))]
         ELSE [ok |-> FALSE, val |-> 0]

RECURSIVE NatToStr(_)
NatToStr(n) ==
    IF n < 10 THEN <<DigitChar(n)>>
    ELSE Append(NatToStr(n \div 10), DigitChar(n % 10))

\* str(n) / f'{n}' of an integer
IntToStr(n) == IF n < 0 THEN <<"-">> \o NatToStr(0 - n) ELSE NatToStr(n)

\* sep.join(list) of a list of strings
RECURSIVE Join(_, _)
Join(sep, l) ==
    IF Len(l) = 0 THEN <<>>
    ELSE IF Len(l) = 1 THEN l[1]
    ELSE l[1] \o <<sep>> \o Join(sep, Tail(l))

\* s.replace(c, '') for a one-character c
RECURSIVE Remove(_, _)
Remove(s, c) ==
    IF Len(s) = 0 THEN <<>>
    ELSE IF s[1] = c THEN Remove(Tail(s), c)
    ELSE <<s[1]>> \o Remove(Tail(s), c)

\* s.split(c): the parts of s between occurrences of c
RECURSIVE Split(_, _)
Split(s, c) ==
    IF \A i \in 1..Len(s) : s[i] # c THEN <<s>>
    ELSE LET i == CHOOSE k \in 1..Len(s) :
                      s[k] = c /\ \A j \in 1..(k - 1) : s[j] # c
         IN <<SubSeq(s, 1, i - 1)>> \o Split(SubSeq(s, i + 1, Len(s)), c)

----------------------------------------------------------------------------
(* get_largest_divider *)

\* the loop body for r, r-1, ..., 0 of range(max)[::-1]
RECURSIVE DividerFrom(_, _)
DividerFrom(inp, r) ==
    IF r < 0 THEN [status |-> "exit", val |-> 0]
    ELSE IF r = 0 THEN [status |-> "ZeroDivisionError", val |-> 0]
    ELSE IF inp % r = 0 THEN [status |-> "return", val |-> r]
    ELSE DividerFrom(inp, r - 1)

get_largest_divider(inp, max) == DividerFrom(inp, max - 1)

----------------------------------------------------------------------------
(* SubtractDP3: the command tokens *)

\* one token 'key=val' of the command; key is a list of atoms, val a string
KeyTok(key, val) == [key |-> key, sep |-> "=", val |-> val]
Tok(key, val) == KeyTok(<<key>>, val)
\* tokens that predict() writes with blanks around the equals sign
TokSp(key, val) == [key |-> <<key>>, sep |-> " = ", val |-> val]
Word(key) == [key |-> <<key>>, sep |-> "", val |-> <<>>]

\* __init__ and the end of run(): the base template
BaseCmd ==
    << Word("DP3"),
       Tok("msin.missingdata", <<"True">>),
       Tok("msin.orderms", <<"False">>),
       Tok("msout.storagemanager", <<"dysco">>) >>

\* the two tokens run() and moreDP3() append for measurement set ms
IOTokens(ms) == << Tok("msin", <<ms>>), Tok("msout", <<"sub_", ms>>) >>

\* the object state a method works on; err # "" once an exception is raised
Obj(c, s, e) == [cmd |-> c, steps |-> s, err |-> e]

\* SubtractDP3.predict
predict(o, sourcedb, subtract, h5parm) ==
    LET c1 == o.cmd \o
              << TokSp("predict.type", <<"predict">>),
                 TokSp("predict.sourcedb", Str(sourcedb)),
                 TokSp("predict.usebeammodel", <<"True">>),
                 TokSp("predict.usebeammodel", <<"True">>),
                 TokSp("predict.beammode", <<"array_factor">>),
                 TokSp("predict.applycal.steps", <<"[amp, phase]">>),
                 TokSp("predict.applycal.amp.correction", <<"amplitude000">>),
                 TokSp("predict.applycal.phase.correction", <<"phase000">>),
                 TokSp("predict.applycal.parmdb", Str(h5parm)),
                 Tok("msout", <<".">>) >>
        c2 == IF subtract
              THEN c1 \o << TokSp("predict.operation", <<"subtract">>),
                            TokSp("msout.datacolumn", <<"SUBTRACT_DATA">>) >>
              ELSE c1
    IN Obj(c2, Append(o.steps, <<"predict">>), o.err)

\* isfulljones without the test of line 100 for four entries
isfulljonesAnyPol(h5) == h5.pol # 0

\* SubtractDP3.isfulljones: the first solution table of sol000 has a 'pol'
\* axis with four entries.  h5.pol is the size of that axis (0: no such axis).
isfulljones(h5) == h5.pol # 0 /\ h5.pol = 4

\* moreDP3, 1) PHASESHIFT
PhaseShift(o, phaseshift) ==
    IF ~phaseshift.some \/ o.err # "" THEN o
    ELSE LET parts == Split(Remove(Remove(phaseshift.s, "["), "]"), ",")
         IN IF Len(parts) < 2 THEN Obj(o.cmd, o.steps, "IndexError")
            ELSE Obj(o.cmd \o
                       << Tok("ps.type", <<"phaseshifter">>),
                          Tok("ps.phasecenter",
                              <<"[">> \o parts[1] \o <<",">> \o parts[2]
                                      \o <<"]">>) >>,
                     Append(o.steps, <<"ps">>), o.err)

\* moreDP3, 2) APPLY BEAM
ApplyBeam(o, applybeam) ==
    IF ~applybeam \/ o.err # "" THEN o
    ELSE Obj(o.cmd \o << Tok("beam.type", <<"applybeam">>),
                         Tok("beam.direction", <<"[]">>),
                         Tok("beam.updateweights", <<"True">>) >>,
             Append(o.steps, <<"beam">>), o.err)

\* f'ac{ac_count}'
AcName(ac_count) == <<"ac">> \o IntToStr(ac_count)

\* the loop over T.root.sol000._v_groups.keys(), for the keys left
RECURSIVE ApplyCalLoop(_, _, _, _)
ApplyCalLoop(o, file, keys, ac_count) ==
    IF Len(keys) = 0 THEN o
    ELSE ApplyCalLoop(
             Obj(o.cmd \o
                   << KeyTok(AcName(ac_count) \o <<".type">>, <<"applycal">>),
                      KeyTok(AcName(ac_count) \o <<".parmdb">>, file),
                      KeyTok(AcName(ac_count) \o <<".correction">>,
                             <<keys[1]>>) >>,
                 Append(o.steps, AcName(ac_count)), o.err),
             file, Tail(keys), ac_count + 1)

\* moreDP3, 3) APPLYCAL; h5 is the content of the file applycal_h5 names
ApplyCal(o, applycal_h5, h5) ==
    IF ~applycal_h5.some \/ o.err # "" THEN o
    ELSE IF isfulljones(h5)
         THEN Obj(o.cmd \o
                    << KeyTok(<<"ac", ".type">>, <<"applycal">>),
                       KeyTok(<<"ac", ".parmdb">>, applycal_h5.s),
                       KeyTok(<<"ac", ".correction">>, <<"fulljones">>),
                       KeyTok(<<"ac", ".soltab">>,
                              <<"[amplitude000,phase000]">>) >>,
                  Append(o.steps, <<"ac">>), o.err)
         ELSE ApplyCalLoop(o, applycal_h5.s, h5.keys, 0)

\* the condition of line 199 under which freqavg is taken as a step count
FreqIsStep(s) == IsDigit(s) \/ ~IsAlpha(s[Len(s)])

\* moreDP3, 4) AVERAGING: the frequency token (lines 198-202)
FreqAvg(o, freqavg) ==
    IF ~freqavg.some \/ o.err # "" THEN o
    ELSE IF ~IsDigit(freqavg.s) /\ Len(freqavg.s) = 0
         THEN Obj(o.cmd, o.steps, "IndexError")
    ELSE IF FreqIsStep(freqavg.s)
         THEN IF IntOf(freqavg.s).ok
              THEN Obj(Append(o.cmd, Tok("avg.freqstep",
                                         IntToStr(IntOf(freqavg.s).val))),
                       o.steps, o.err)
              ELSE Obj(o.cmd, o.steps, "ValueError")
    ELSE Obj(Append(o.cmd, Tok("avg.freqresolution", freqavg.s)),
             o.steps, o.err)

\* moreDP3, 4) AVERAGING: the time token (lines 203-207)
TimeAvg(o, timeavg) ==
    IF ~timeavg.some \/ o.err # "" THEN o
    ELSE IF IsDigit(timeavg.s)
         THEN Obj(Append(o.cmd, Tok("avg.timestep",
                                    IntToStr(IntOf(timeavg.s).val))),
                  o.steps, o.err)
         ELSE Obj(Append(o.cmd, Tok("avg.timeresolution", timeavg.s)),
                  o.steps, o.err)

\* moreDP3, 4) AVERAGING
Averaging(o, freqavg, timeavg) ==
    IF ~(freqavg.some \/ timeavg.some) \/ o.err # "" THEN o
    ELSE TimeAvg(FreqAvg(Obj(Append(o.cmd, Tok("avg.type", <<"averager">>)),
                             Append(o.steps, <<"avg">>), o.err),
                         freqavg),
                 timeavg)

\* 'steps=' + str(self.steps).replace(" ", "").replace("'", "")
StepsToken(s) == Tok("steps", <<"[">> \o Join(",", s) \o <<"]">>)

\* the loop of lines 217-218 over the measurement sets left
RECURSIVE AllIOTokens(_)
AllIOTokens(l) ==
    IF Len(l) = 0 THEN <<>> ELSE IOTokens(l[1]) \o AllIOTokens(Tail(l))

\* moreDP3, lines 209-218: the steps token and the msin/msout tokens
Finish(o, concat, l) ==
    IF o.err # "" THEN o
    ELSE Obj(Append(o.cmd, StepsToken(o.steps)) \o
               (IF concat
                THEN << Tok("msin", Join(",", [i \in 1..Len(l) |-> <<l[i]>>])),
                        Tok("msout", <<"subtract_concat.ms">>) >>
                ELSE AllIOTokens(l)),
             o.steps, o.err)

\* SubtractDP3.moreDP3
moreDP3(o, l, phaseshift, freqavg, timeavg, concat, applybeam, applycal_h5, h5) ==
    Finish(
      Averaging(
        ApplyCal(
          ApplyBeam(
            PhaseShift(
              Obj(Append(o.cmd, Tok("msin.datacolumn", <<"SUBTRACT_DATA">>)),
                  o.steps, o.err),
              phaseshift),
            applybeam),
          applycal_h5, h5),
        freqavg, timeavg),
      concat, l)

----------------------------------------------------------------------------
(* Inputs *)

MSNames == <<"a.ms", "b.ms", "c.ms", "d.ms">>
\* --mslist has nargs='+': at least one measurement set
MSLists == { SubSeq(MSNames, 1, k) : k \in 1..MaxMS }

PhaseCenters ==
    { None,
      Some(<<"[", "ra", ",", "dec", "]">>),
      Some(<<"ra">>) }

FreqAvgs ==
    { None,
      Some(<<"1", "6">>),
      Some(<<"2", "M", "H", "z">>),
      Some(<<"2", ".", "5">>) }

TimeAvgs == { None, Some(<<"4">>), Some(<<"8", "s">>) }

SoltabNames == {"amplitude000", "phase000", "tec000"}
PolSizes == {0, 2, 4}

\* the keys of sol000 in encounter order, and the pol axis of the first one
H5Contents ==
    { [keys |-> k, pol |-> p] :
        k \in { q \in UNION { [1..n -> SoltabNames] : n \in 1..MaxSoltabs } :
                  \A i, j \in 1..Len(q) : i # j => q[i] # q[j] },
        p \in PolSizes }

NoH5 == [keys |-> <<>>, pol |-> 0]

\* the tables the runs of __main__ find in the solution file
MainH5Contents ==
    { [keys |-> <<"amplitude000", "phase000">>, pol |-> p] : p \in PolSizes }

H5Files == { None, Some(<<"cal.h5">>) }
PredictH5Files == { None, Some(<<"predict.h5">>) }

NoCall ==
    [op |-> "none", sourcedb |-> None, subtract |-> FALSE, h5parm |-> None,
     phaseshift |-> None, freqavg |-> None, timeavg |-> None,
     concat |-> FALSE, applybeam |-> FALSE, applycal_h5 |-> None,
     h5 |-> NoH5]

PredictCall(sourcedb, subtract, h5parm) ==
    [NoCall EXCEPT !.op = "predict", !.sourcedb = sourcedb,
                   !.subtract = subtract, !.h5parm = h5parm]

MoreCall(phaseshift, freqavg, timeavg, concat, applybeam, applycal_h5, h5) ==
    [NoCall EXCEPT !.op = "moreDP3", !.phaseshift = phaseshift,
                   !.freqavg = freqavg, !.timeavg = timeavg,
                   !.concat = concat, !.applybeam = applybeam,
                   !.applycal_h5 = applycal_h5, !.h5 = h5]

NoInputs == [phasecenter |-> None, freqavg |-> None, timeavg |-> None]
\* the file system __main__ runs in: none of the four polygon_info.csv paths
\* of lines 281-288 is a file, or the file found holds no row for the region,
\* or it holds one
PolyFiles == {"missing", "norow", "row"}
NoEnv == [polyfile |-> "missing"]
NoRun == [type |-> "", n |-> 0, ret |-> ""]
NoGld == [inp |-> 0, max |-> 0, status |-> "idle", val |-> 0]

\* the dests the ArgumentParser of lines 251-268 defines
ParserDests ==
    {"mslist", "region", "output_name", "skip_predict", "h5parm_predict",
     "phasecenter", "freqavg", "timeavg", "concat", "applybeam", "applycal",
     "applycal_h5", "print_only_commands", "forwidefield"}

\* the Namespaces parse_args() can return (region and output_name, which
\* select no branch, are left out)
Namespaces ==
    [mslist : MSLists,
     skip_predict : BOOLEAN,
     h5parm_predict : PredictH5Files,
     phasecenter : {None, Some(<<"[", "ra", ",", "dec", "]">>)},
     freqavg : {None, Some(<<"4">>), Some(<<"2", ".", "5">>)},
     timeavg : {None, Some(<<"4">>)},
     concat : BOOLEAN,
     applybeam : BOOLEAN,
     applycal : BOOLEAN,
     applycal_h5 : H5Files,
     print_only_commands : BOOLEAN,
     forwidefield : BOOLEAN]

NoArgs ==
    [mslist |-> <<>>, skip_predict |-> FALSE, h5parm_predict |-> None,
     phasecenter |-> None, freqavg |-> None, timeavg |-> None,
     concat |-> FALSE, applybeam |-> FALSE, applycal |-> FALSE,
     applycal_h5 |-> None, print_only_commands |-> FALSE,
     forwidefield |-> FALSE]

----------------------------------------------------------------------------
(* The analysis script and the divider are idle while the subtract script
   runs, and the other way round *)

McIdle ==
    /\ mc_pc = "idle"
    /\ globbed = <<>>
    /\ lists = <<>>
    /\ report = <<>>

Dp3Idle ==
    /\ pc = "idle"
    /\ args = NoArgs
    /\ env = NoEnv
    /\ inputs = NoInputs
    /\ mslist = <<>>
    /\ cmd = <<>>
    /\ steps = <<>>
    /\ run = NoRun
    /\ last = NoCall
    /\ written = <<>>
    /\ invoked = <<>>
    /\ err = ""

----------------------------------------------------------------------------
(* SubtractDP3.run *)

\* f"dp3{type}_{n}.cmd"
CmdFileName(type, n) == <<"dp3", type, "_">> \o IntToStr(n) \o <<".cmd">>

\* the loop body with the exit status of the tool ignored, as with
\* subprocess.call in place of check_output
RunStepIgnoringExit ==
    /\ pc = "run"
    /\ run.n < Len(mslist)
    /\ LET c == cmd \o IOTokens(mslist[run.n + 1])
       IN /\ cmd' = c
          /\ written' = Append(written,
                               [name |-> CmdFileName(run.type, run.n),
                                content |-> c])
          /\ \E rc \in {0, 1} :
               /\ invoked' = Append(invoked, [cmd |-> c, rc |-> rc])
               /\ run' = [run EXCEPT !.n = run.n + 1]
               /\ UNCHANGED <<pc, err>>
    /\ UNCHANGED <<args, env, inputs, mslist, steps, last, gld>>
    /\ UNCHANGED mcvars

\* one pass of the loop of lines 231-236; rc is the exit status of the tool
RunStep ==
    /\ pc = "run"
    /\ run.n < Len(mslist)
    /\ LET c == cmd \o IOTokens(mslist[run.n + 1])
       IN /\ cmd' = c
          /\ written' = Append(written,
                               [name |-> CmdFileName(run.type, run.n),
                                content |-> c])
          /\ \E rc \in {0, 1} :
               /\ invoked' = Append(invoked, [cmd |-> c, rc |-> rc])
               /\ IF rc = 0
                  THEN /\ run' = [run EXCEPT !.n = run.n + 1]
                       /\ UNCHANGED <<pc, err>>
                  ELSE /\ pc' = "error"
                       /\ err' = "CalledProcessError"
                       /\ UNCHANGED run
    /\ UNCHANGED <<args, env, inputs, mslist, steps, last, gld>>
    /\ UNCHANGED mcvars

\* lines 238-243: the loop is over
RunReturn ==
    /\ pc = "run"
    /\ run.n = Len(mslist)
    /\ cmd' = BaseCmd
    /\ pc' = run.ret
    /\ UNCHANGED <<args, env, inputs, mslist, steps, run, last, written,
                   invoked, err, gld>>
    /\ UNCHANGED mcvars

----------------------------------------------------------------------------
(* A client of the class: predict, run, moreDP3, run, each optional *)

InitLib ==
    /\ pc = "c_start"
    /\ args = NoArgs
    /\ env = NoEnv
    /\ inputs = NoInputs
    /\ mslist \in MSLists
    /\ cmd = BaseCmd
    /\ steps = <<>>
    /\ run = NoRun
    /\ last = NoCall
    /\ written = <<>>
    /\ invoked = <<>>
    /\ err = ""
    /\ gld = NoGld
    /\ McIdle

ClientPredict ==
    /\ pc = "c_start"
    /\ \E subtract \in BOOLEAN, h5parm \in {Some(<<"predict.h5">>)} :
         LET o == predict(Obj(cmd, steps, ""), Some(<<"model.db">>),
                          subtract, h5parm)
         IN /\ cmd' = o.cmd
            /\ steps' = o.steps
            /\ last' = PredictCall(Some(<<"model.db">>), subtract, h5parm)
    /\ pc' = "c_predicted"
    /\ UNCHANGED <<args, env, inputs, mslist, run, written, invoked, err,
                   gld>>
    /\ UNCHANGED mcvars

ClientMoreDP3 ==
    /\ pc \in {"c_start", "c_predicted", "c_ran"}
    /\ \E phaseshift \in PhaseCenters, freqavg \in FreqAvgs,
          timeavg \in TimeAvgs, concat \in BOOLEAN, applybeam \in BOOLEAN,
          applycal_h5 \in H5Files, h5 \in H5Contents \cup {NoH5} :
         /\ applycal_h5.some <=> h5 # NoH5
         /\ LET o == moreDP3(Obj(cmd, steps, ""), mslist, phaseshift,
                             freqavg, timeavg, concat, applybeam,
                             applycal_h5, h5)
            IN /\ cmd' = o.cmd
               /\ steps' = o.steps
               /\ err' = o.err
               /\ pc' = IF o.err = "" THEN "c_configured" ELSE "error"
               /\ last' = MoreCall(phaseshift, freqavg, timeavg, concat,
                                   applybeam, applycal_h5, h5)
    /\ UNCHANGED <<args, env, inputs, mslist, run, written, invoked, gld>>
    /\ UNCHANGED mcvars

ClientRun ==
    /\ pc \in {"c_predicted", "c_configured"}
    /\ run' = IF pc = "c_predicted"
              THEN [type |-> "predict", n |-> 0, ret |-> "c_ran"]
              ELSE [type |-> "phaseshift", n |-> 0, ret |-> "done"]
    /\ pc' = "run"
    /\ UNCHANGED <<args, env, inputs, mslist, cmd, steps, last, written,
                   invoked, err, gld>>
    /\ UNCHANGED mcvars

NextLib == ClientPredict \/ ClientMoreDP3 \/ ClientRun \/ RunStep \/ RunReturn

SpecLib == InitLib /\ [][NextLib]_vars

----------------------------------------------------------------------------
(* __main__ of subtract_with_dp3.py *)

Init ==
    /\ pc = "m_predict"
    /\ args \in Namespaces
    /\ env \in [polyfile : PolyFiles]
    /\ inputs = NoInputs
    /\ mslist = args.mslist
    /\ cmd = BaseCmd
    /\ steps = <<>>
    /\ run = NoRun
    /\ last = NoCall
    /\ written = <<>>
    /\ invoked = <<>>
    /\ err = ""
    /\ gld = NoGld
    /\ McIdle

\* lines 273-277.  args.sourcedb is read before predict() is entered; the
\* parser defines no such dest, so the read raises AttributeError.
MainPredict ==
    /\ pc = "m_predict"
    /\ IF args.skip_predict
       THEN /\ pc' = "m_widefield"
            /\ UNCHANGED <<cmd, steps, run, last, err>>
       ELSE IF "sourcedb" \notin ParserDests
       THEN /\ pc' = "error"
            /\ err' = "AttributeError"
            /\ UNCHANGED <<cmd, steps, run, last>>
       ELSE LET o == predict(Obj(cmd, steps, ""), None, TRUE,
                             args.h5parm_predict)
            IN /\ cmd' = o.cmd
               /\ steps' = o.steps
               /\ last' = PredictCall(None, TRUE, args.h5parm_predict)
               /\ err' = err
               /\ IF args.print_only_commands
                  THEN pc' = "m_widefield" /\ run' = run
                  ELSE /\ pc' = "run"
                       /\ run' = [type |-> "predict", n |-> 0,
                                  ret |-> "m_widefield"]
    /\ UNCHANGED <<args, env, inputs, mslist, written, invoked, gld>>
    /\ UNCHANGED mcvars

ChanNums == {4, 6}
PolygonAvgs == {1, 3, 4}
\* get_time_preavg_factor: the parsed demixer.timestep, or -1 when the
\* history cannot be parsed (an exception inside the try of line 310)
PreAvgFactors == {-1, 0, 1, 2}

\* lines 310-314
WideTimeAvg(freqavg, factor) ==
    IF factor <= 0 THEN freqavg ELSE freqavg \div factor

\* lines 280-321
MainWideField ==
    /\ pc = "m_widefield"
    /\ IF ~args.forwidefield
       THEN /\ inputs' = [phasecenter |-> args.phasecenter,
                          freqavg |-> args.freqavg,
                          timeavg |-> args.timeavg]
            /\ pc' = "m_rundp3"
            /\ UNCHANGED err
       ELSE LET polyfile == env.polyfile
            IN CASE polyfile = "missing" ->
                        /\ pc' = "exit"
                        /\ err' = "ERROR: using --forwidefield option needs polygon_info.csv file to read polygon information from"
                        /\ UNCHANGED inputs
                   [] polyfile = "norow" ->
                        /\ pc' = "error"
                        /\ err' = "IndexError"
                        /\ UNCHANGED inputs
                   [] polyfile = "row" ->
                        \E channum \in ChanNums, avg \in PolygonAvgs,
                           factor \in PreAvgFactors :
                          LET d == get_largest_divider(channum, avg)
                          IN IF d.status # "return"
                             THEN /\ pc' = "error"
                                  /\ err' = d.status
                                  /\ UNCHANGED inputs
                             ELSE /\ inputs' =
                                       [phasecenter |->
                                          Some(<<"[", "ra", ",", "dec", "]">>),
                                        freqavg |-> Some(IntToStr(d.val)),
                                        timeavg |->
                                          Some(IntToStr(
                                                 WideTimeAvg(d.val, factor)))]
                                  /\ pc' = "m_rundp3"
                                  /\ UNCHANGED err
    /\ UNCHANGED <<args, env, mslist, cmd, steps, run, last, written,
                   invoked, gld>>
    /\ UNCHANGED mcvars

\* "x is not None" of a store_true flag: its value is False or True
FlagIsNotNone(b) == b \in BOOLEAN

\* the condition of lines 323-328
StageGate ==
    \/ args.phasecenter.some
    \/ args.freqavg.some
    \/ args.timeavg.some
    \/ FlagIsNotNone(args.concat)
    \/ FlagIsNotNone(args.applybeam)
    \/ FlagIsNotNone(args.applycal)

\* lines 330-337: the solution file to apply, or the exit of line 335
ApplyCalH5 ==
    IF args.applycal_h5.some THEN [exit |-> FALSE, h5 |-> args.applycal_h5]
    ELSE IF args.applycal /\ ~args.applycal_h5.some /\ args.h5parm_predict.some
    THEN [exit |-> FALSE, h5 |-> args.h5parm_predict]
    ELSE IF args.applycal /\ ~args.applycal_h5.some
    THEN [exit |-> TRUE, h5 |-> None]
    ELSE [exit |-> FALSE, h5 |-> None]

\* lines 323-342
MainRunDP3 ==
    /\ pc = "m_rundp3"
    /\ IF ~StageGate
       THEN /\ pc' = "done"
            /\ UNCHANGED <<cmd, steps, run, last, err>>
       ELSE IF ApplyCalH5.exit
       THEN /\ pc' = "exit"
            /\ err' = "ERROR: need a solution file for applycal (give with --applycal_h5)"
            /\ UNCHANGED <<cmd, steps, run, last>>
       ELSE \E h5 \in MainH5Contents \cup {NoH5} :
              /\ ApplyCalH5.h5.some <=> h5 # NoH5
              /\ LET o == moreDP3(Obj(cmd, steps, ""), mslist,
                                  inputs.phasecenter, inputs.freqavg,
                                  inputs.timeavg, args.concat, args.applybeam,
                                  ApplyCalH5.h5, h5)
                 IN /\ cmd' = o.cmd
                    /\ steps' = o.steps
                    /\ err' = o.err
                    /\ last' = MoreCall(inputs.phasecenter, inputs.freqavg,
                                        inputs.timeavg, args.concat,
                                        args.applybeam, ApplyCalH5.h5, h5)
                    /\ IF o.err # ""
                       THEN pc' = "error" /\ run' = run
                       ELSE IF args.print_only_commands
                       THEN pc' = "done" /\ run' = run
                       ELSE /\ pc' = "run"
                            /\ run' = [type |-> "phaseshift", n |-> 0,
                                       ret |-> "done"]
    /\ UNCHANGED <<args, env, inputs, mslist, written, invoked, gld>>
    /\ UNCHANGED mcvars

Next == MainPredict \/ MainWideField \/ MainRunDP3 \/ RunStep \/ RunReturn

Spec == Init /\ [][Next]_vars

----------------------------------------------------------------------------
(* get_largest_divider on its own *)

InitDivider ==
    /\ gld \in [inp : 1..MaxChan, max : 1..MaxAvg, status : {"called"},
                val : {0}]
    /\ Dp3Idle
    /\ McIdle

CallDivider ==
    /\ gld.status = "called"
    /\ LET r == get_largest_divider(gld.inp, gld.max)
       IN gld' = [gld EXCEPT !.status = r.status, !.val = r.val]
    /\ UNCHANGED dp3vars
    /\ UNCHANGED mcvars

NextDivider == CallDivider

SpecDivider == InitDivider /\ [][NextDivider]_vars

----------------------------------------------------------------------------
(* montecarlo_results.py: numbers *)

\* A float is an exact rational <<n, d>> in lowest terms with d > 0;
\* nan is <<0, 0>> and inf is <<1, 0>>.
NaN == <<0, 0>>
Inf == <<1, 0>>

Abs(x) == IF x < 0 THEN 0 - x ELSE x

RECURSIVE Gcd(_, _)
Gcd(a, b) == IF b = 0 THEN a ELSE Gcd(b, a % b)

Norm(n, d) ==
    IF d = 0 THEN (IF n = 0 THEN NaN ELSE Inf)
    ELSE LET g == Gcd(Abs(n), Abs(d))
         IN IF d < 0 THEN <<(0 - n) \div g, (0 - d) \div g>>
            ELSE <<n \div g, d \div g>>

Finite(a) == a[2] # 0
Rat(i) == <<i, 1>>

\* an operand that is not finite makes the result nan (inf is only ever
\* printed, never an operand)
RAdd(a, b) ==
    IF Finite(a) /\ Finite(b)
    THEN Norm(a[1] * b[2] + b[1] * a[2], a[2] * b[2]) ELSE NaN
RSub(a, b) ==
    IF Finite(a) /\ Finite(b)
    THEN Norm(a[1] * b[2] - b[1] * a[2], a[2] * b[2]) ELSE NaN
RMul(a, b) ==
    IF Finite(a) /\ Finite(b) THEN Norm(a[1] * b[1], a[2] * b[2]) ELSE NaN
\* a / b of two floats: 0/0 is nan and x/0 is inf
RDiv(a, b) ==
    IF Finite(a) /\ Finite(b) THEN Norm(a[1] * b[2], a[2] * b[1]) ELSE NaN

\* np.sum of a list of floats
RECURSIVE RSum(_)
RSum(l) == IF Len(l) = 0 THEN Rat(0) ELSE RAdd(l[1], RSum(Tail(l)))

\* np.power(x, 2), elementwise
Squares(l) == [i \in 1..Len(l) |-> RMul(l[i], l[i])]

\* np.sum(np.divide(v, np.power(e, 2))) / np.sum(1 / np.power(e, 2))
WeightedMean(v, e) ==
    RDiv(RSum([i \in 1..Len(v) |-> RDiv(v[i], Squares(e)[i])]),
         RSum([i \in 1..Len(e) |-> RDiv(Rat(1), Squares(e)[i])]))

\* np.mean
Mean(v) == RDiv(RSum(v), Rat(Len(v)))

\* the square of scipy.stats.sem(v): the variance with ddof = 1 over n
Sem2(v) ==
    RDiv(RDiv(RSum(Squares([i \in 1..Len(v) |-> RSub(v[i], Mean(v))])),
              Rat(Len(v) - 1)),
         Rat(Len(v)))

\* the square of uncertainty(d_err), lines 7-9
uncertainty2(d_err) ==
    RDiv(Rat(1), RSum([i \in 1..Len(d_err) |-> RDiv(Rat(1), Squares(d_err)[i])]))

\* the square of sem(v) * sqrt(sum((e / sum(e^2))^2)), lines 101, 106, ...
SlopeUnc2(v, e) ==
    RMul(Sem2(v),
         RSum(Squares([i \in 1..Len(e) |-> RDiv(e[i], RSum(Squares(e)))])))

----------------------------------------------------------------------------
(* montecarlo_results.py: result files *)

\* a token of a line: a number, a number written '(v,' or a word
Num(v) == [t |-> "num", v |-> v, w |-> ""]
Paren(v) == [t |-> "paren", v |-> v, w |-> ""]
W(w) == [t |-> "word", v |-> 0, w |-> w]

SlopePhrase == <<W("Linear"), W("regression"), W("slope"), W("is")>>

\* a file that holds measurement m, with pad lines between the slope line
\* and the four correlation lines
MkFile(m, pad) ==
    << <<W("header")>>, <<W("header")>>, <<W("header")>>,
       SlopePhrase \o <<Num(m[1]), W("+-"), Num(m[2])>> >>
    \o [i \in 1..pad |-> <<W("fit")>>]
    \o << <<Paren(m[3]), Num(0)>>,
          <<W("+-"), Num(m[4])>>,
          <<Paren(m[5]), Num(0)>>,
          <<W("+-"), Num(m[6])>> >>

\* slope, slope error, Pearson R and error, Spearman R and error
Measurements ==
    { <<<<1, 1, 1, 1, 1, 2>>, 0>>,
      <<<<2, 1, 3, 1, 2, 1>>, 1>>,
      <<<<4, 2, 2, 2, 4, 3>>, 2>> }

WellFormed == { MkFile(x[1], x[2]) : x \in Measurements }

Malformed ==
    { \* fewer than four lines
      << <<W("header")>>, <<W("header")>>, <<W("header")>> >>,
      \* a slope that is no number
      << <<W("header")>>, <<W("header")>>, <<W("header")>>,
         SlopePhrase \o <<W("nan?"), W("+-"), Num(1)>>,
         <<Paren(1), Num(0)>>, <<W("+-"), Num(1)>>,
         <<Paren(1), Num(0)>>, <<W("+-"), Num(1)>> >> }

ResultFiles == WellFormed \cup Malformed

\* lines[i] with Python's indexing: i >= 0 from the start, i < 0 from the end
PyIndexOk(l, i) == IF i >= 0 THEN i < Len(l) ELSE 0 - i <= Len(l)
PyIndex(l, i) == IF i >= 0 THEN l[i + 1] ELSE l[Len(l) + i + 1]

\* line.replace('Linear regression slope is ', '')
RECURSIVE DropPhrase(_)
DropPhrase(line) ==
    IF Len(line) = 0 THEN <<>>
    ELSE IF Len(line) >= 4 /\ SubSeq(line, 1, 4) = SlopePhrase
         THEN DropPhrase(SubSeq(line, 5, Len(line)))
         ELSE <<line[1]>> \o DropPhrase(Tail(line))

\* float(tok)
FloatOf(tok) ==
    IF tok.t = "num" THEN [ok |-> TRUE, val |-> Rat(tok.v)]
    ELSE [ok |-> FALSE, val |-> NaN]

\* tok.replace('(', '').replace(',', '')
StripParen(tok) == IF tok.t = "paren" THEN Num(tok.v) ELSE tok

Fail == [ok |-> FALSE, val |-> NaN]

\* float(lines[i].split()[0].replace('(','').replace(',',''))
FirstStripped(lines, i) ==
    IF ~PyIndexOk(lines, i) THEN Fail
    ELSE IF Len(PyIndex(lines, i)) = 0 THEN Fail
    ELSE FloatOf(StripParen(PyIndex(lines, i)[1]))

\* float(lines[i].split()[-1])
LastOf(lines, i) ==
    IF ~PyIndexOk(lines, i) THEN Fail
    ELSE IF Len(PyIndex(lines, i)) = 0 THEN Fail
    ELSE FloatOf(PyIndex(lines, i)[Len(PyIndex(lines, i))])

\* float(lines[3].replace('Linear regression slope is ', '').split()[k])
SlopeOf(lines, last_token) ==
    IF ~PyIndexOk(lines, 3) THEN Fail
    ELSE LET toks == DropPhrase(PyIndex(lines, 3))
         IN IF Len(toks) = 0 THEN Fail
            ELSE FloatOf(IF last_token THEN toks[Len(toks)] ELSE toks[1])

Groups ==
    <<"a399_cb", "a401_cb", "bridge_cb",
      "a399_rudnick", "a401_rudnick", "bridge_rudnick">>
GroupSet == { Groups[i] : i \in 1..Len(Groups) }

\* the line the loop of group g reads the Pearson error from:
\* lines 41, 51, 62, 73 read lines[-3]; lines 83 and 93 read lines[-1]
PearsonErrLine(g) ==
    IF g \in {"a401_rudnick", "bridge_rudnick"} THEN -1 ELSE -3

\* the six values the loop body of group g appends for one file
Collect(g, lines) ==
    [pearson |-> FirstStripped(lines, -4),
     pearson_err |-> LastOf(lines, PearsonErrLine(g)),
     spearman |-> FirstStripped(lines, -2),
     spearman_err |-> LastOf(lines, -1),
     results |-> SlopeOf(lines, FALSE),
     err |-> SlopeOf(lines, TRUE)]

Fields6 == {"pearson", "pearson_err", "spearman", "spearman_err",
            "results", "err"}

EmptyLists == [f \in Fields6 |-> <<>>]

----------------------------------------------------------------------------
(* montecarlo_results.py: the script *)

FieldNames == <<"a399", "a401", "bridge">>

\* the glob list of field number fi and a variant
GroupOf(fi, variant) == IF variant = "cb" THEN Groups[fi] ELSE Groups[fi + 3]

NextPosition(g) ==
    CASE g = "a399_cb" -> "a401_cb"
      [] g = "a401_cb" -> "bridge_cb"
      [] g = "bridge_cb" -> "a399_rudnick"
      [] g = "a399_rudnick" -> "a401_rudnick"
      [] g = "a401_rudnick" -> "bridge_rudnick"
      [] g = "bridge_rudnick" -> "print_uv"

RECURSIVE SumLen(_, _)
SumLen(f, i) == IF i = 0 THEN 0 ELSE Len(f[Groups[i]]) + SumLen(f, i - 1)

InitMC ==
    /\ mc_pc = "a399_cb"
    /\ globbed = [g \in GroupSet |-> <<>>]
    /\ lists = [g \in GroupSet |-> EmptyLists]
    /\ report = <<>>
    /\ gld = NoGld
    /\ Dp3Idle

\* the loop body with a file that fails to parse skipped, as under
\* try/except: continue
ReadFileSkipping ==
    /\ mc_pc \in GroupSet
    /\ SumLen(globbed, 6) < MaxFiles
    /\ \E f \in ResultFiles :
         LET c == Collect(mc_pc, f)
         IN /\ globbed' = [globbed EXCEPT ![mc_pc] = Append(@, f)]
            /\ IF \A k \in Fields6 : c[k].ok
               THEN lists' = [lists EXCEPT ![mc_pc] =
                                [k \in Fields6 |-> Append(@[k], c[k].val)]]
               ELSE UNCHANGED lists
            /\ UNCHANGED mc_pc
    /\ UNCHANGED report
    /\ UNCHANGED <<gld, dp3vars>>

\* one pass of the loop the script is in (lines 37-97) over one more file
\* of its glob list
ReadFile ==
    /\ mc_pc \in GroupSet
    /\ SumLen(globbed, 6) < MaxFiles
    /\ \E f \in ResultFiles :
         LET c == Collect(mc_pc, f)
         IN /\ globbed' = [globbed EXCEPT ![mc_pc] = Append(@, f)]
            /\ IF \A k \in Fields6 : c[k].ok
               THEN /\ lists' = [lists EXCEPT ![mc_pc] =
                                   [k \in Fields6 |-> Append(@[k], c[k].val)]]
                    /\ UNCHANGED mc_pc
               ELSE /\ mc_pc' = "error"
                    /\ UNCHANGED lists
    /\ UNCHANGED report
    /\ UNCHANGED <<gld, dp3vars>>

\* the glob list of the loop is exhausted
EndLoop ==
    /\ mc_pc \in GroupSet
    /\ mc_pc' = NextPosition(mc_pc)
    /\ UNCHANGED <<globbed, lists, report, gld>>
    /\ UNCHANGED dp3vars

\* a printed aggregate; unc2 is the square of the printed uncertainty
Line(section, quantity, fi, value, unc2) ==
    [section |-> section, quantity |-> quantity, field |-> FieldNames[fi],
     value |-> value, unc2 |-> unc2]

\* the plain aggregate of lines 102-103, 107-108, ...
CorrelationMean(v) == Mean(v)

\* the three prints of one field in the per-variant blocks
VariantLines(section, fi, l) ==
    << Line(section, "Slope", fi, WeightedMean(l.results, l.err),
            SlopeUnc2(l.results, l.err)),
       Line(section, "Pearson R", fi, CorrelationMean(l.pearson),
            Sem2(l.pearson)),
       Line(section, "Spearman R", fi, CorrelationMean(l.spearman),
            Sem2(l.spearman)) >>

\* lines 99-113
PrintUVSubtract ==
    /\ mc_pc = "print_uv"
    /\ report' = report
                 \o VariantLines("UV-Subtract", 1, lists[GroupOf(1, "cb")])
                 \o VariantLines("UV-Subtract", 2, lists[GroupOf(2, "cb")])
                 \o VariantLines("UV-Subtract", 3, lists[GroupOf(3, "cb")])
    /\ mc_pc' = "print_rudnick"
    /\ UNCHANGED <<globbed, lists, gld>>
    /\ UNCHANGED dp3vars

\* lines 115-128
PrintRudnick ==
    /\ mc_pc = "print_rudnick"
    /\ report' = report
                 \o VariantLines("Rudnick", 1, lists[GroupOf(1, "rudnick")])
                 \o VariantLines("Rudnick", 2, lists[GroupOf(2, "rudnick")])
                 \o VariantLines("Rudnick", 3, lists[GroupOf(3, "rudnick")])
    /\ mc_pc' = "print_total"
    /\ UNCHANGED <<globbed, lists, gld>>
    /\ UNCHANGED dp3vars

\* the combined slope errors with the variants in the other order than the
\* combined slopes
TotalSlopeErrSwapped(r, c) == c.err \o r.err

\* lines 131-136, 145-150, 158-163: the combined lists of a field
TotalSlopes(r, c) == r.results \o c.results
TotalSlopeErr(r, c) == r.err \o c.err
TotalPearson(r, c) == r.pearson \o c.pearson
TotalPearsonErr(r, c) == r.pearson_err \o c.pearson_err
TotalSpearman(r, c) == r.spearman \o c.spearman
TotalSpearmanErr(r, c) == r.spearman_err \o c.spearman_err

\* the combined correlation aggregated like the per-variant ones
TotalCorrelationPlain(v, e) == Mean(v)

\* the aggregate of lines 139, 141, 153, 155, 166, 168
TotalCorrelation(v, e) == WeightedMean(v, e)

\* the three prints of one field in the Total block
TotalLines(fi, r, c) ==
    << Line("Total", "Slope", fi,
            WeightedMean(TotalSlopes(r, c), TotalSlopeErr(r, c)),
            uncertainty2(TotalSlopeErr(r, c))),
       Line("Total", "Pearson R", fi,
            TotalCorrelation(TotalPearson(r, c), TotalPearsonErr(r, c)),
            uncertainty2(TotalPearsonErr(r, c))),
       Line("Total", "Spearman R", fi,
            TotalCorrelation(TotalSpearman(r, c), TotalSpearmanErr(r, c)),
            uncertainty2(TotalSpearmanErr(r, c))) >>

\* lines 130-169; the *_pearson_err and *_spearman_err lists of the rudnick
\* variant are rebound to the combined lists
PrintTotal ==
    /\ mc_pc = "print_total"
    /\ report' = report
                 \o TotalLines(1, lists[GroupOf(1, "rudnick")],
                               lists[GroupOf(1, "cb")])
                 \o TotalLines(2, lists[GroupOf(2, "rudnick")],
                               lists[GroupOf(2, "cb")])
                 \o TotalLines(3, lists[GroupOf(3, "rudnick")],
                               lists[GroupOf(3, "cb")])
    /\ lists' = [g \in GroupSet |->
                   IF \E fi \in 1..3 : g = GroupOf(fi, "rudnick")
                   THEN LET c == lists[Groups[
                                   (CHOOSE fi \in 1..3 :
                                      g = GroupOf(fi, "rudnick"))]]
                        IN [lists[g] EXCEPT
                              !.pearson_err = TotalPearsonErr(lists[g], c),
                              !.spearman_err = TotalSpearmanErr(lists[g], c)]
                   ELSE lists[g]]
    /\ mc_pc' = "done"
    /\ UNCHANGED <<globbed, gld>>
    /\ UNCHANGED dp3vars

NextMC ==
    ReadFile \/ EndLoop \/ PrintUVSubtract \/ PrintRudnick \/ PrintTotal

SpecMC == InitMC /\ [][NextMC]_vars

----------------------------------------------------------------------------
(* Claims about the command builder *)

TokensWithKey(c, k) == SelectSeq(c, LAMBDA t : t.key = <<k>>)
HasKey(c, k) == \E i \in 1..Len(c) : c[i].key = <<k>>

\* C1: with only the predict stage enabled, every measurement set gets its
\* own command file, which holds the predict tokens, exactly one msin= token
\* and exactly one msout= token, those of its own measurement set, and no
\* msin=/msout= token of another measurement set.
C1_PredictFilePerMS ==
    (last.op = "predict" /\ pc \in {"run", "c_ran"} /\ err = "")
    => /\ \A i \in 1..Len(written) :
            /\ written[i].name = CmdFileName("predict", i - 1)
            /\ HasKey(written[i].content, "predict.type")
            /\ HasKey(written[i].content, "predict.sourcedb")
            /\ TokensWithKey(written[i].content, "msin")
                 = << Tok("msin", <<mslist[i]>>) >>
            /\ TokensWithKey(written[i].content, "msout")
                 = << Tok("msout", <<"sub_", mslist[i]>>) >>
       /\ pc = "c_ran" => Len(written) = Len(mslist)

\* an invocation was made and the next tokens are about to be appended: for
\* the next measurement set of the loop, or for the next stage
AfterInvocation ==
    /\ Len(invoked) > 0
    /\ \/ pc = "run" /\ run.n > 0 /\ run.n < Len(mslist)
       \/ pc = "c_ran"

\* C2: after every invocation of the tool the token list and the step list
\* are back at the base template before anything is appended for the next
\* measurement set or stage, and no msin=/msout= token of an earlier
\* invocation appears in a later command.
C2_ResetAfterEachInvocation ==
    /\ AfterInvocation => cmd = BaseCmd /\ steps = <<>>
    /\ \A i, j \in 1..Len(invoked) :
         i < j => \A k \in 1..Len(invoked[j].cmd) :
                    invoked[j].cmd[k] \notin
                      { TokensWithKey(invoked[i].cmd, "msin")[
                            Len(TokensWithKey(invoked[i].cmd, "msin"))],
                        TokensWithKey(invoked[i].cmd, "msout")[
                            Len(TokensWithKey(invoked[i].cmd, "msout"))] }

\* the run of __main__ is over and no invocation of the tool failed
Ended ==
    /\ pc \in {"done", "exit", "error"}
    /\ \A i \in 1..Len(invoked) : invoked[i].rc = 0

NoOptionalStage ==
    /\ ~args.phasecenter.some
    /\ ~args.freqavg.some
    /\ ~args.timeavg.some
    /\ ~args.concat
    /\ ~args.applybeam
    /\ ~args.applycal
    /\ ~args.applycal_h5.some
    /\ ~args.forwidefield

\* C3: a run of __main__ with predict and no optional stage requested does
\* not configure or run the post-predict stage, and writes exactly one
\* predict command file per measurement set.
C3_PredictOnlyWritesNFiles ==
    (Ended /\ ~args.skip_predict /\ ~args.print_only_commands
       /\ NoOptionalStage)
    => /\ last.op # "moreDP3"
       /\ Len(written) = Len(mslist)
       /\ \A i \in 1..Len(written) :
            written[i].name = CmdFileName("predict", i - 1)

\* C4: get_largest_divider(n, m) with n >= 1 and m >= 1 returns the largest
\* divisor d of n with d <= m.
C4_LargestDivisor ==
    gld.status \notin {"idle", "called"}
    => /\ gld.status = "return"
       /\ gld.val \in 1..gld.max
       /\ gld.inp % gld.val = 0
       /\ \A d \in (gld.val + 1)..gld.max : gld.inp % d # 0

\* moreDP3 has just returned, or has just raised an exception
MoreDP3Over ==
    /\ last.op = "moreDP3"
    /\ \/ pc = "c_configured"
       \/ pc = "error" /\ err # "CalledProcessError"

FreqTokens ==
    SelectSeq(cmd, LAMBDA t : t.key \in { <<"avg.freqstep">>,
                                          <<"avg.freqresolution">> })

\* C8: given a frequency-averaging value, moreDP3 adds exactly one frequency
\* token: avg.freqstep=<integer> for a value of digits only, otherwise
\* avg.freqresolution=<value> unchanged; a value that is not purely digits
\* is never converted to an integer and never makes the call fail.
C8_FrequencyToken ==
    (MoreDP3Over /\ last.freqavg.some
       /\ (last.phaseshift.some =>
             Len(Split(last.phaseshift.s, ",")) >= 2))
    => /\ err = ""
       /\ Len(FreqTokens) = 1
       /\ IF \A i \in 1..Len(last.freqavg.s) : last.freqavg.s[i] \in Digits
          THEN FreqTokens[1] = Tok("avg.freqstep", last.freqavg.s)
          ELSE FreqTokens[1] = Tok("avg.freqresolution", last.freqavg.s)

\* the name of apply step number k, written out
AcStepName(k) == <<"ac", <<"0", "1", "2", "3", "4">>[k + 1]>>

AcSteps == SelectSeq(steps, LAMBDA n : n[1] = "ac")
AcTokens == SelectSeq(cmd, LAMBDA t : t.key[1] = "ac")

\* C9: when moreDP3 applies a solution table whose polarization axis has 4
\* entries, exactly one apply step ac with correction fulljones is added to
\* the tokens and the step list; otherwise one apply step ac0, ac1, ... is
\* added per key of the table, in table order, each step's tokens naming its
\* key and the step list holding the names in that order.
C9_ApplyCalSteps ==
    (MoreDP3Over /\ err = "" /\ last.applycal_h5.some)
    => IF last.h5.pol = 4
       THEN /\ AcSteps = << <<"ac">> >>
            /\ AcTokens =
                 << KeyTok(<<"ac", ".type">>, <<"applycal">>),
                    KeyTok(<<"ac", ".parmdb">>, last.applycal_h5.s),
                    KeyTok(<<"ac", ".correction">>, <<"fulljones">>),
                    KeyTok(<<"ac", ".soltab">>,
                           <<"[amplitude000,phase000]">>) >>
       ELSE /\ AcSteps = [k \in 1..Len(last.h5.keys) |-> AcStepName(k - 1)]
            /\ Len(AcTokens) = 3 * Len(last.h5.keys)
            /\ \A k \in 1..Len(last.h5.keys) :
                 /\ AcTokens[3 * k - 2] =
                      KeyTok(AcStepName(k - 1) \o <<".type">>, <<"applycal">>)
                 /\ AcTokens[3 * k - 1] =
                      KeyTok(AcStepName(k - 1) \o <<".parmdb">>,
                             last.applycal_h5.s)
                 /\ AcTokens[3 * k] =
                      KeyTok(AcStepName(k - 1) \o <<".correction">>,
                             <<last.h5.keys[k]>>)

\* a per-key application of a table with two keys, and a fulljones one
C9_Witness ==
    /\ MoreDP3Over
    /\ err = ""
    /\ last.applycal_h5.some
    /\ last.h5 = [keys |-> <<"phase000", "amplitude000">>, pol |-> 2]
    /\ AcSteps = << <<"ac", "0">>, <<"ac", "1">> >>
    /\ KeyTok(<<"ac", "1", ".correction">>, <<"amplitude000">>) \in
         { cmd[i] : i \in 1..Len(cmd) }

\* no solution file is available for a requested calibration application
NoSolutionFile ==
    args.applycal /\ ~args.applycal_h5.some /\ ~args.h5parm_predict.some

\* C10: with wide-field mode and no polygon-info file, or calibration
\* application and no solution file, the process exits with a descriptive
\* error, and no command file has been written and the tool has not been
\* invoked at any point of the run.
C10_FailFastBeforeAnyCommand ==
    (Ended /\ ( (args.forwidefield /\ env.polyfile = "missing")
                \/ NoSolutionFile ))
    => /\ pc = "exit"
       /\ written = <<>>
       /\ invoked = <<>>

\* some invocation of the external tool has exited non-zero
ToolFailed == \E i \in 1..Len(invoked) : invoked[i].rc # 0

\* C11: a non-zero exit of the external tool propagates out of run()
\* unhandled and aborts the run: the failing invocation is the last one, its
\* command file is the last one written, and nothing happens afterwards (no
\* file, no invocation for a later measurement set, no later stage).
C11_ToolFailureAborts ==
    [][ /\ ~ToolFailed
        /\ ToolFailed' =>
             /\ pc' = "error"
             /\ err' = "CalledProcessError"
             /\ invoked'[Len(invoked')].rc # 0
             /\ \A i \in 1..(Len(invoked') - 1) : invoked'[i].rc = 0
             /\ Len(written') = Len(invoked')
             /\ written'[Len(written')].content
                  = invoked'[Len(invoked')].cmd ]_vars

\* the tool fails on the first of two measurement sets in the predict stage
C11_Witness ==
    /\ ToolFailed
    /\ Len(mslist) = 2
    /\ run.type = "predict"
    /\ Len(invoked) = 1
    /\ Len(written) = 1
    /\ last.op = "predict"
    /\ pc = "error"

\* the last token of command c with key k is token t
LastTokenIs(c, k, t) ==
    LET m == TokensWithKey(c, k)
    IN Len(m) > 0 /\ m[Len(m)] = t

\* the commands of the stage moreDP3 configured with concat enabled
ConcatCommands ==
    IF last.op = "moreDP3" /\ last.concat
    THEN { i \in 1..Len(invoked) :
             \E n \in 0..(Len(mslist) - 1) :
                written[i].name = CmdFileName("phaseshift", n) }
    ELSE {}

\* C13: with concat enabled, every command run() writes and executes has
\* the comma-joined list of all measurement sets as its last msin= token
\* and subtract_concat.ms as its last msout= token, so no per-measurement-set
\* msin=/msout= token follows the concat tokens.
C13_ConcatTokensLast ==
    \A i \in ConcatCommands :
        /\ written[i].content = invoked[i].cmd
        /\ LastTokenIs(invoked[i].cmd, "msin",
                       Tok("msin", Join(",", [j \in 1..Len(mslist) |->
                                                 <<mslist[j]>>])))
        /\ LastTokenIs(invoked[i].cmd, "msout",
                       Tok("msout", <<"subtract_concat.ms">>))

----------------------------------------------------------------------------
(* Claims about the analysis script *)

\* the measurement a well-formed result file holds: slope, slope error,
\* Pearson R and its error, Spearman R and its error
MeasurementOf(f) ==
    (CHOOSE x \in Measurements : MkFile(x[1], x[2]) = f)[1]

\* column k of the measurements of the files read for group g, in read order
Column(g, k) == [i \in 1..Len(globbed[g]) |-> MeasurementOf(globbed[g][i])[k]]

RECURSIVE IntSum(_)
IntSum(l) == IF Len(l) = 0 THEN 0 ELSE l[1] + IntSum(Tail(l))
RECURSIVE IntProd(_)
IntProd(l) == IF Len(l) = 0 THEN 1 ELSE l[1] * IntProd(Tail(l))

SqProd(e) == IntProd([i \in 1..Len(e) |-> e[i] * e[i]])

\* sum(v_i / e_i^2) / sum(1 / e_i^2) of integer lists, over the common
\* denominator prod(e_i^2)
InverseVarianceMean(v, e) ==
    Norm(IntSum([i \in 1..Len(v) |-> v[i] * (SqProd(e) \div (e[i] * e[i]))]),
         IntSum([i \in 1..Len(e) |-> SqProd(e) \div (e[i] * e[i])]))

\* 1 / sum(1 / e_i^2)
InverseVarianceUnc2(e) ==
    Norm(SqProd(e), IntSum([i \in 1..Len(e) |-> SqProd(e) \div (e[i] * e[i])]))

PlainMean(v) == Norm(IntSum(v), Len(v))

\* the squared standard error of the mean: (n sum(x^2) - sum(x)^2) / (n^2 (n-1))
PlainSem2(v) ==
    Norm(Len(v) * IntSum([i \in 1..Len(v) |-> v[i] * v[i]])
           - IntSum(v) * IntSum(v),
         Len(v) * Len(v) * (Len(v) - 1))

FieldIndex(name) == CHOOSE fi \in 1..3 : FieldNames[fi] = name

\* column k of the files a printed line aggregates: those of one variant, or
\* for the Total block the rudnick files followed by the cb files
LineColumn(line, k) ==
    LET fi == FieldIndex(line.field)
    IN CASE line.section = "UV-Subtract" -> Column(GroupOf(fi, "cb"), k)
         [] line.section = "Rudnick" -> Column(GroupOf(fi, "rudnick"), k)
         [] line.section = "Total" ->
              Column(GroupOf(fi, "rudnick"), k) \o Column(GroupOf(fi, "cb"), k)

ReportLines == { report[i] : i \in 1..Len(report) }

\* C5: every printed slope, per variant and in the combined total, is the
\* inverse-variance weighted mean in which each file's slope is weighted by
\* that same file's slope error (the total takes the rudnick files, then the
\* cb files).
C5_SlopeInverseVarianceMean ==
    \A line \in ReportLines :
      line.quantity = "Slope"
      => line.value = InverseVarianceMean(LineColumn(line, 1),
                                          LineColumn(line, 2))

\* slopes 1 and 2 with errors 1 and 1, one of each variant, combine to 1.5
C5_Witness ==
    /\ mc_pc = "done"
    /\ Column("a399_rudnick", 1) = <<1>> /\ Column("a399_cb", 1) = <<2>>
    /\ Column("a399_rudnick", 2) = <<1>> /\ Column("a399_cb", 2) = <<1>>
    /\ \E line \in ReportLines :
         /\ line.section = "Total" /\ line.quantity = "Slope"
         /\ line.field = "a399" /\ line.value = <<3, 2>>
    /\ \E line \in ReportLines :
         /\ line.section = "UV-Subtract" /\ line.quantity = "Slope"
         /\ line.field = "a399" /\ line.value = <<2, 1>>

Correlations == {"Pearson R", "Spearman R"}

\* the columns of a correlation coefficient and of its error
CoefficientColumn(q) == IF q = "Pearson R" THEN 3 ELSE 5
ErrorColumn(q) == IF q = "Pearson R" THEN 4 ELSE 6

\* C6 as stated: every printed Pearson R and Spearman R aggregate, per
\* variant and combined, is the plain mean of the per-file coefficients with
\* the standard error of the mean as uncertainty (taken here for the
\* aggregates over at least two files, where both are defined).
C6_AllCorrelationsPlainMean ==
    \A line \in ReportLines :
      (line.quantity \in Correlations
         /\ Len(LineColumn(line, CoefficientColumn(line.quantity))) >= 2)
      => /\ line.value =
              PlainMean(LineColumn(line, CoefficientColumn(line.quantity)))
         /\ line.unc2 =
              PlainSem2(LineColumn(line, CoefficientColumn(line.quantity)))

\* the error the collector stored with a coefficient of group g: the loops
\* of a401_rudnick and bridge_rudnick store the last line's value as the
\* Pearson error
StoredErrorColumn(g, q) ==
    IF q = "Pearson R" /\ g \in {"a401_rudnick", "bridge_rudnick"}
    THEN Column(g, 6)
    ELSE Column(g, ErrorColumn(q))

\* C6 as amended: per variant, the Pearson R and Spearman R aggregates are
\* the plain mean with the standard error of the mean; the combined ones are
\* the inverse-variance weighted mean of the rudnick then cb coefficients,
\* weighted by the errors the collector stored, with 1/sum(1/e^2) as the
\* squared uncertainty.
C6_CorrelationAggregates ==
    \A line \in ReportLines :
      line.quantity \in Correlations
      => LET v == LineColumn(line, CoefficientColumn(line.quantity))
             e == StoredErrorColumn(GroupOf(FieldIndex(line.field), "rudnick"),
                                    line.quantity)
                  \o StoredErrorColumn(GroupOf(FieldIndex(line.field), "cb"),
                                       line.quantity)
         IN IF line.section = "Total"
            THEN /\ line.value = InverseVarianceMean(v, e)
                 /\ line.unc2 = InverseVarianceUnc2(e)
            ELSE /\ line.value = PlainMean(v)
                 /\ line.unc2 = PlainSem2(v)

\* Pearson R 3 and 2 with errors 1 and 2: the plain mean is 5/2 with squared
\* standard error 1/4, the weighted mean is 14/5
C6_Witness ==
    /\ mc_pc = "done"
    /\ Column("a399_cb", 3) = <<3, 2>>
    /\ Column("a399_cb", 4) = <<1, 2>>
    /\ Column("a399_rudnick", 3) = <<>>
    /\ \E line \in ReportLines :
         /\ line.section = "UV-Subtract" /\ line.quantity = "Pearson R"
         /\ line.field = "a399"
         /\ line.value = <<5, 2>> /\ line.unc2 = <<1, 4>>
    /\ \E line \in ReportLines :
         /\ line.section = "Total" /\ line.quantity = "Pearson R"
         /\ line.field = "a399"
         /\ line.value = <<14, 5>> /\ line.unc2 = <<4, 5>>

\* the collecting loops are running or over, every file read was well-formed
\* and the Total block has not yet rebound the error lists
Collected ==
    /\ mc_pc \in GroupSet \cup {"print_uv", "print_rudnick", "print_total"}
    /\ \A g \in GroupSet : \A i \in 1..Len(globbed[g]) :
         globbed[g][i] \in WellFormed

\* C7: every loop reads the same six fields from the same positions: slope
\* and slope error from line 3, Pearson R and its error from the 4th-last and
\* 3rd-last lines, Spearman R and its error from the 2nd-last and last lines;
\* so the Pearson error of a measurement is never the value of its Spearman
\* error line.
C7_SamePositionsInEveryLoop ==
    Collected
    => \A g \in GroupSet :
         /\ lists[g].results = [i \in 1..Len(globbed[g]) |-> Rat(Column(g, 1)[i])]
         /\ lists[g].err = [i \in 1..Len(globbed[g]) |-> Rat(Column(g, 2)[i])]
         /\ lists[g].pearson = [i \in 1..Len(globbed[g]) |-> Rat(Column(g, 3)[i])]
         /\ lists[g].pearson_err = [i \in 1..Len(globbed[g]) |-> Rat(Column(g, 4)[i])]
         /\ lists[g].spearman = [i \in 1..Len(globbed[g]) |-> Rat(Column(g, 5)[i])]
         /\ lists[g].spearman_err = [i \in 1..Len(globbed[g]) |-> Rat(Column(g, 6)[i])]

\* the tokens the loop of group g reads from a file of at least four lines
ReadTokens(g, f) ==
    LET first(l) == l[1]
        final(l) == l[Len(l)]
        slope == DropPhrase(PyIndex(f, 3))
    IN { StripParen(first(PyIndex(f, -4))),
         final(PyIndex(f, PearsonErrLine(g))),
         StripParen(first(PyIndex(f, -2))),
         final(PyIndex(f, -1)),
         first(slope), final(slope) }

\* fewer than four lines, or a non-numeric token at a position that is read
MalformedFor(g, f) ==
    \/ Len(f) < 4
    \/ \E t \in ReadTokens(g, f) : t.t # "num"

SomeMalformedRead ==
    \E g \in GroupSet : \E i \in 1..Len(globbed[g]) :
        MalformedFor(g, globbed[g][i])

\* C12: once a malformed result file of any field or variant has been read,
\* the script has aborted with an error and has printed no aggregate line;
\* the file is never skipped with the run going on.
C12_MalformedFileAborts ==
    SomeMalformedRead => /\ mc_pc = "error"
                         /\ report = <<>>

\* a malformed file of the last list read after well-formed files of the
\* first one: nothing is printed for the first either
C12_Witness ==
    /\ mc_pc = "error"
    /\ report = <<>>
    /\ Len(globbed["a399_cb"]) = 2
    /\ \A i \in 1..2 : ~MalformedFor("a399_cb", globbed["a399_cb"][i])
    /\ Len(lists["a399_cb"].results) = 2
    /\ Len(globbed["bridge_rudnick"]) = 1
    /\ Len(globbed["bridge_rudnick"][1]) >= 4
    /\ MalformedFor("bridge_rudnick", globbed["bridge_rudnick"][1])

====
